---- MODULE Spec2Model ----
(***************************************************************************)
(* Model of the retrying HTTP client of package httpclient                 *)
(* (src/httpclient/httpclient.go): client construction and options, the    *)
(* retry loop of Client.Do with its backoff waits and context              *)
(* cancellation, and the size-limited response body (limitedReadCloser).   *)
(* Durations are counted in seconds.                                       *)
(***************************************************************************)
EXTENDS Integers, Sequences, FiniteSets, TLC

\* ------------------------------------------------------------------ bounds
MaxRetry == 6
MaxOpts == 2
MaxSize == 2
MaxBody == 3
MaxReads == 5
MaxCloses == 2
ConcRetry == 2      \* retryMax of the client that concurrent calls share
MaxClients == 2     \* calls of New
LiveRetry == 3      \* largest retryMax of the clients of SpecLive

\* ------------------------------------------------------- program constants
defaultRetryMax == 3
defaultRetryWaitMin == 1
defaultRetryWaitMax == 15
defaultMaxResponseSize == 1048576

ConstantBackoff == 0
ExponentialBackoff == 1

StatusTooManyRequests == 429
StatusBadGateway == 502
StatusServiceUnavailable == 503
StatusGatewayTimeout == 504

\* The status key getNextWait is called with after a transport error.
NoStatus == 0

\* ------------------------------------------------------------ input sets
\* Values the options are called with.
RetryMaxOpts == (0 - 1)..MaxRetry
WaitMinOpts == {2, 16}
WaitMaxOpts == {10}
SizeOpts == {MaxSize}
CodeOpts == {NoStatus, StatusTooManyRequests, 500}
Strategies == {ConstantBackoff, ExponentialBackoff}

\* Status codes the server answers with.
Statuses == {200, StatusTooManyRequests, 500, StatusServiceUnavailable}

CallIds == {1, 2}

VARIABLES
    phase,      \* "new": no client yet; "opts": options being applied; "ready"
    client,     \* the fields of the Client
    nopts,      \* number of options applied so far
    call,       \* per call of Do: its locals and what it has done so far
    rd,         \* the limitedReadCloser under test and its underlying body
    heap,       \* the map objects allocated so far, by reference
    cls         \* the clients built so far (SpecNew), each with its map's
                \* reference and the options it was built with

\* The state of the construction of several clients.
built == <<heap, cls>>

vars == <<phase, client, nopts, call, rd, heap, cls>>

\* ------------------------------------------------------------ the client
\* The zero value of the exported struct Client: every field zero, nil map.
ZeroClient ==
    [retryMax |-> 0, retryWaitMin |-> 0, retryWaitMax |-> 0,
     maxResponseSize |-> 0, mapIsNil |-> TRUE, backoffStrategy |-> <<>>]

\* The map literal of New.
DefaultBackoff ==
    (StatusTooManyRequests :> ExponentialBackoff)
        @@ (StatusServiceUnavailable :> ConstantBackoff)
        @@ (StatusGatewayTimeout :> ConstantBackoff)
        @@ (StatusBadGateway :> ConstantBackoff)

\* The struct literal of New, before the options are applied.
NewClient ==
    [retryMax |-> defaultRetryMax,
     retryWaitMin |-> defaultRetryWaitMin,
     retryWaitMax |-> defaultRetryWaitMax,
     maxResponseSize |-> defaultMaxResponseSize,
     mapIsNil |-> FALSE,
     backoffStrategy |-> DefaultBackoff]

WithRetryMax(c, max) == [c EXCEPT !.retryMax = max]

WithRetryWaitMin(c, min) == [c EXCEPT !.retryWaitMin = min]

WithRetryWaitMax(c, max) == [c EXCEPT !.retryWaitMax = max]

WithMaxResponseSize(c, maxBytes) == [c EXCEPT !.maxResponseSize = maxBytes]

\* The option storing its entry in a new copy of the defaults.
WithBackoffStrategy_fresh(c, statusCode, strategy) ==
    [c EXCEPT !.mapIsNil = FALSE,
              !.backoffStrategy = (statusCode :> strategy) @@ DefaultBackoff]

WithBackoffStrategy(c, statusCode, strategy) ==
    LET m == IF c.mapIsNil THEN <<>> ELSE c.backoffStrategy
    IN [c EXCEPT !.mapIsNil = FALSE,
                 !.backoffStrategy =
                     (statusCode :> strategy) @@ m]

\* The comma-ok lookup c.backoffStrategy[statusCode]; reading a nil map finds
\* nothing.
Configured(c, statusCode) ==
    ~c.mapIsNil /\ statusCode \in DOMAIN c.backoffStrategy

Min(a, b) == IF a < b THEN a ELSE b

shouldRetry(statusCode) ==
    CASE statusCode = StatusTooManyRequests -> TRUE
      [] statusCode = StatusServiceUnavailable -> TRUE
      [] statusCode = StatusGatewayTimeout -> TRUE
      [] statusCode = StatusBadGateway -> TRUE
      [] OTHER -> FALSE

\* getNextWait without the cap at retryWaitMax.
getNextWait_uncapped(c, statusCode, currentWait) ==
    IF ~Configured(c, statusCode)
    THEN c.retryWaitMin
    ELSE IF c.backoffStrategy[statusCode] = ExponentialBackoff
         THEN currentWait * 2
         ELSE c.retryWaitMin

\* getNextWait that treats the error sentinel 0 as never configured.
getNextWait_noSentinel(c, statusCode, currentWait) ==
    IF statusCode = NoStatus \/ ~Configured(c, statusCode)
    THEN c.retryWaitMin
    ELSE IF c.backoffStrategy[statusCode] = ExponentialBackoff
         THEN IF currentWait * 2 > c.retryWaitMax
              THEN c.retryWaitMax
              ELSE currentWait * 2
         ELSE c.retryWaitMin

\* getNextWait that doubles retryWaitMin instead of the current wait.
getNextWait_fromMin(c, statusCode, currentWait) ==
    IF ~Configured(c, statusCode)
    THEN c.retryWaitMin
    ELSE IF c.backoffStrategy[statusCode] = ExponentialBackoff
         THEN IF c.retryWaitMin * 2 > c.retryWaitMax
              THEN c.retryWaitMax
              ELSE c.retryWaitMin * 2
         ELSE c.retryWaitMin

\* getNextWait that tests the cap on the current wait, before doubling it.
getNextWait_capFirst(c, statusCode, currentWait) ==
    IF ~Configured(c, statusCode)
    THEN c.retryWaitMin
    ELSE IF c.backoffStrategy[statusCode] = ExponentialBackoff
         THEN IF currentWait > c.retryWaitMax
              THEN c.retryWaitMax
              ELSE currentWait * 2
         ELSE c.retryWaitMin

getNextWait(c, statusCode, currentWait) ==
    IF ~Configured(c, statusCode)
    THEN c.retryWaitMin
    ELSE IF c.backoffStrategy[statusCode] = ExponentialBackoff
         THEN IF currentWait * 2 > c.retryWaitMax
              THEN c.retryWaitMax
              ELSE currentWait * 2
         ELSE c.retryWaitMin

\* ------------------------------------------------------------ Do: state
NilErr == [kind |-> "nil", at |-> 0]
CtxErr == [kind |-> "ctx", at |-> 0]
TransportErr(n) == [kind |-> "transport", at |-> n]

NilResp == [at |-> 0, status |-> 0, body |-> "none"]

\* A call of Do that has not started.
IdleCall ==
    [pc |-> "idle",
     i |-> 0, wait |-> 0, resp |-> NilResp, err |-> NilErr,
     cancelled |-> FALSE,      \* req.Context() is done
     timer |-> "off",          \* the channel of time.After: off, armed, fired
     sel |-> "none",           \* the case the blocked select was woken with
     attempts |-> 0,           \* calls of c.Client.Do so far
     nwaits |-> 0,             \* backoff waits started so far
     trigger |-> NoStatus,     \* what started the latest wait (NoStatus: error)
     onlyErr |-> TRUE,         \* every attempt so far failed in the transport
     onlyExp |-> TRUE,         \* every attempt so far got an Exponential status
     open |-> 0,               \* bodies received, not closed, not returned
     closed |-> 0,             \* bodies Do has closed
     wrapped |-> 0,            \* LimitedReader calls
     limit |-> 0,              \* the limit of the wrapper of the returned body
     ret |-> [resp |-> NilResp, err |-> NilErr]]

\* No limitedReadCloser yet.
IdleReader ==
    [made |-> FALSE,
     limit |-> 0,          \* the limit the reader was made with
     N |-> 0,              \* io.LimitedReader.N: bytes that may still be read
     M |-> 0,              \* length of the underlying body
     pos |-> 0,            \* bytes read from the underlying body
     failed |-> FALSE,     \* the underlying body has returned a read error
     delivered |-> 0,      \* bytes Read has returned to the caller
     before |-> 0,         \* delivered, when the latest Read was called
     reads |-> 0,          \* calls of Read
     n |-> 0, err |-> "nil",       \* what the latest Read returned
     un |-> 0, uerr |-> "nil",     \* what the underlying Read returned to it
     asked |-> FALSE,      \* the latest Read called the underlying Read
     closeCalls |-> 0,     \* calls of Close
     closes |-> 0,         \* calls of the underlying body's Close
     closeErr |-> FALSE]   \* a Close has returned an error

Init ==
    /\ phase = "new"
    /\ client = ZeroClient
    /\ nopts = 0
    /\ call = [id \in CallIds |-> IdleCall]
    /\ rd = IdleReader
    /\ heap = <<>>
    /\ cls = <<>>

\* ------------------------------------------------ construction, options
\* c := New(): the struct literal with the defaults.
New ==
    /\ phase = "new"
    /\ phase' = "opts"
    /\ client' = NewClient
    /\ UNCHANGED <<nopts, call, rd, built>>

\* c := &Client{Client: ...}: the exported struct built without New.
Literal ==
    /\ phase = "new"
    /\ phase' = "opts"
    /\ client' = ZeroClient
    /\ UNCHANGED <<nopts, call, rd, built>>

\* One iteration of "for _, opt := range opts { opt(c) }".
ApplyOption(c) ==
    /\ phase = "opts"
    /\ nopts < MaxOpts
    /\ nopts' = nopts + 1
    /\ client' = c
    /\ UNCHANGED <<phase, call, rd, built>>

OptRetryMax == \E max \in RetryMaxOpts : ApplyOption(WithRetryMax(client, max))

OptRetryWaitMin ==
    \E min \in WaitMinOpts : ApplyOption(WithRetryWaitMin(client, min))

OptRetryWaitMax ==
    \E max \in WaitMaxOpts : ApplyOption(WithRetryWaitMax(client, max))

OptMaxResponseSize ==
    \E maxBytes \in SizeOpts : ApplyOption(WithMaxResponseSize(client, maxBytes))

OptBackoffStrategy ==
    \E statusCode \in CodeOpts, strategy \in Strategies :
        ApplyOption(WithBackoffStrategy(client, statusCode, strategy))

\* --------------------------------------------------------------- Do
\* The kind of an attempt's outcome, by the client's configuration.
KindOf(c, statusCode) ==
    IF ~Configured(c, statusCode) THEN "plain"
    ELSE IF c.backoffStrategy[statusCode] = ExponentialBackoff THEN "exp"
    ELSE "const"

\* The error branch giving up one attempt early.
LastAttempt_early(c, i) == i = c.retryMax - 1

\* The error branch giving up only past the last attempt.
LastAttempt_past(c, i) == i > c.retryMax

\* "i == c.retryMax" of the error branch.
LastAttempt(c, i) == i = c.retryMax

\* The status branch without the test of the retry budget.
RetryStatus_noBudget(c, statusCode, i) == shouldRetry(statusCode)

\* "shouldRetry(resp.StatusCode) && i < c.retryMax".
RetryStatus(c, statusCode, i) == shouldRetry(statusCode) /\ i < c.retryMax

\* The retried response's body left open.
CloseBody_skipped(r) == r

\* resp.Body.Close() of a response that is retried.
CloseBody(r) ==
    [r EXCEPT !.resp.body = "closed", !.open = @ - 1, !.closed = @ + 1]

\* The accepted response returned with its body as the transport gave it.
WrapBody_skipped(c, r) == r

\* "resp.Body = c.LimitedReader(resp.Body)": the body wrapped, with the
\* client's limit.
WrapBody(c, r) ==
    [r EXCEPT !.resp.body = "wrapped", !.wrapped = @ + 1,
              !.limit = c.maxResponseSize]

\* "return resp, err" of every return statement.
Return(r, resp, err) ==
    [r EXCEPT !.pc = "done", !.ret = [resp |-> resp, err |-> err]]

\* The head of the for loop: the condition, and c.Client.Do(req) issued.
LoopHead(c, r) ==
    IF r.i <= c.retryMax
    THEN [r EXCEPT !.pc = "attempt", !.attempts = @ + 1]
    ELSE Return(r, r.resp, r.err)

\* The select statement is entered: time.After(wait) is evaluated.
EnterSelect(r, statusCode) ==
    [r EXCEPT !.pc = "select", !.timer = "armed", !.sel = "none",
              !.nwaits = @ + 1, !.trigger = statusCode]

\* The cancellation case returning the attempt's own result.
Proceed_staleOnCancel(c, r, ch) ==
    IF ch = "ctx"
    THEN Return(r, r.resp, r.err)
    ELSE LoopHead(c, [r EXCEPT !.wait = getNextWait(c, r.trigger, r.wait),
                               !.i = @ + 1,
                               !.timer = "off", !.sel = "none"])

\* The cancellation case returning no response and no error.
Proceed_swallowCancel(c, r, ch) ==
    IF ch = "ctx"
    THEN Return(r, NilResp, NilErr)
    ELSE LoopHead(c, [r EXCEPT !.wait = getNextWait(c, r.trigger, r.wait),
                               !.i = @ + 1,
                               !.timer = "off", !.sel = "none"])

\* The case of the select that was taken.
Proceed(c, r, ch) ==
    IF ch = "ctx"
    THEN Return(r, NilResp, CtxErr)
    ELSE LoopHead(c, [r EXCEPT !.wait = getNextWait(c, r.trigger, r.wait),
                               !.i = @ + 1,
                               !.timer = "off", !.sel = "none"])

\* Do is called, on a client that is built: wait := c.retryWaitMin, i := 0.
DoCall(id) ==
    /\ phase \in {"opts", "ready"}
    /\ call[id].pc = "idle"
    /\ phase' = "ready"
    /\ call' = [call EXCEPT ![id] =
           LoopHead(client, [@ EXCEPT !.wait = client.retryWaitMin, !.i = 0])]
    /\ UNCHANGED <<client, nopts, rd, built>>

\* c.Client.Do returns an error and no response.
DoTransportError(id) ==
    LET r == call[id]
        e == [r EXCEPT !.resp = NilResp, !.err = TransportErr(r.attempts),
                       !.onlyExp = FALSE]
    IN /\ r.pc = "attempt"
       /\ call' = [call EXCEPT ![id] =
              IF LastAttempt(client, r.i)
              THEN Return(e, NilResp, e.err)
              ELSE EnterSelect(e, NoStatus)]
       /\ UNCHANGED <<phase, client, nopts, rd, built>>

\* c.Client.Do returns a response with the given status.
DoResponse(id, statusCode) ==
    LET r == call[id]
        resp == [at |-> r.attempts, status |-> statusCode, body |-> "open"]
        e == [r EXCEPT !.resp = resp, !.err = NilErr, !.open = @ + 1,
                       !.onlyErr = FALSE,
                       !.onlyExp = @ /\ KindOf(client, statusCode) = "exp"]
    IN /\ r.pc = "attempt"
       /\ ~r.cancelled
       /\ call' = [call EXCEPT ![id] =
              IF RetryStatus(client, statusCode, r.i)
              THEN EnterSelect(CloseBody(e), statusCode)
              ELSE Return([WrapBody(client, e) EXCEPT !.open = @ - 1],
                          WrapBody(client, e).resp, NilErr)]
       /\ UNCHANGED <<phase, client, nopts, rd, built>>

\* The cases of the select that can proceed when it is evaluated.
Ready(r) ==
    (IF r.cancelled THEN {"ctx"} ELSE {})
        \cup (IF r.timer = "fired" THEN {"timer"} ELSE {})

\* The select is evaluated: one of the ready cases, or the goroutine blocks.
DoSelect(id) ==
    LET r == call[id]
    IN /\ r.pc = "select"
       /\ IF Ready(r) = {}
          THEN call' = [call EXCEPT ![id].pc = "blocked"]
          ELSE \E ch \in Ready(r) :
                   call' = [call EXCEPT ![id] = Proceed(client, r, ch)]
       /\ UNCHANGED <<phase, client, nopts, rd, built>>

\* The wait kept in one place for every call on the client: the step of one
\* call stores the recomputed wait for the others too.
DoWake_shared(id) ==
    LET r == call[id]
        n == Proceed(client, r, r.sel)
    IN /\ r.pc = "blocked"
       /\ r.sel # "none"
       /\ call' = [k \in CallIds |->
                     IF k = id THEN n ELSE [call[k] EXCEPT !.wait = n.wait]]
       /\ UNCHANGED <<phase, client, nopts, rd, built>>

\* The blocked goroutine runs again with the case that woke it.
DoWake(id) ==
    LET r == call[id]
    IN /\ r.pc = "blocked"
       /\ r.sel # "none"
       /\ call' = [call EXCEPT ![id] = Proceed(client, r, r.sel)]
       /\ UNCHANGED <<phase, client, nopts, rd, built>>

\* The request's context is cancelled or its deadline passes.
Cancel(id) ==
    LET r == call[id]
    IN /\ r.pc \in {"attempt", "select", "blocked"}
       /\ ~r.cancelled
       /\ call' = [call EXCEPT ![id] =
              [r EXCEPT !.cancelled = TRUE,
                        !.sel = IF r.pc = "blocked" /\ r.sel = "none"
                                THEN "ctx" ELSE @]]
       /\ UNCHANGED <<phase, client, nopts, rd, built>>

\* The timer of time.After(wait) expires.
TimerFire(id) ==
    LET r == call[id]
    IN /\ r.pc \in {"select", "blocked"}
       /\ r.timer = "armed"
       /\ r.sel = "none"
       /\ call' = [call EXCEPT ![id] =
              [r EXCEPT !.timer = "fired",
                        !.sel = IF r.pc = "blocked" THEN "timer" ELSE @]]
       /\ UNCHANGED <<phase, client, nopts, rd, built>>

Do(id) ==
    \/ DoCall(id)
    \/ DoTransportError(id)
    \/ \E statusCode \in Statuses : DoResponse(id, statusCode)
    \/ DoSelect(id)
    \/ DoWake(id)
    \/ Cancel(id)
    \/ TimerFire(id)

Next ==
    \/ New
    \/ Literal
    \/ OptRetryMax
    \/ OptRetryWaitMin
    \/ OptRetryWaitMax
    \/ OptMaxResponseSize
    \/ OptBackoffStrategy
    \/ Do(1)

Spec == Init /\ [][Next]_vars

\* ------------------------------------------------- concurrent calls of Do
\* The client of New(WithRetryMax(ConcRetry), WithBackoffStrategy(0,
\* ExponentialBackoff)), on which Do is then called from two goroutines.
InitConc ==
    /\ phase = "ready"
    /\ client = WithBackoffStrategy(WithRetryMax(NewClient, ConcRetry),
                                    NoStatus, ExponentialBackoff)
    /\ nopts = 0
    /\ call = [id \in CallIds |-> IdleCall]
    /\ rd = IdleReader
    /\ heap = <<>>
    /\ cls = <<>>

\* The steps of the two calls in any order.
NextConc == \E id \in CallIds : Do(id)

SpecConc == InitConc /\ [][NextConc]_vars

\* ------------------------------------------------- Do under fair scheduling
\* A client of New(WithRetryMax(n)), n >= 0, on which Do is called.
InitLive ==
    /\ phase = "ready"
    /\ client \in {WithRetryMax(NewClient, n) : n \in 0..LiveRetry}
    /\ nopts = 0
    /\ call = [id \in CallIds |-> IdleCall]
    /\ rd = IdleReader
    /\ heap = <<>>
    /\ cls = <<>>

NextLive == Do(1)

\* c.Client.Do(req) returns, with an error or with a response.
AttemptReturns(id) ==
    \/ DoTransportError(id)
    \/ \E statusCode \in Statuses : DoResponse(id, statusCode)

\* Every attempt returns, the goroutine of Do runs when it can, and the timer
\* of a wait fires unless the cancellation has woken the select before.
Fairness ==
    /\ WF_vars(AttemptReturns(1))
    /\ WF_vars(DoSelect(1))
    /\ WF_vars(DoWake(1))
    /\ WF_vars(TimerFire(1))

SpecLive == InitLive /\ [][NextLive]_vars /\ Fairness

\* ------------------------------------------------- several clients
\* An option value: which With... function, and its arguments.
NewOptions ==
    {[opt |-> "RetryMax", a |-> max, b |-> 0] : max \in {0, MaxRetry}}
        \cup {[opt |-> "RetryWaitMin", a |-> min, b |-> 0] : min \in WaitMinOpts}
        \cup {[opt |-> "RetryWaitMax", a |-> max, b |-> 0] : max \in WaitMaxOpts}
        \cup {[opt |-> "MaxResponseSize", a |-> n, b |-> 0] : n \in SizeOpts}
        \cup {[opt |-> "BackoffStrategy", a |-> code, b |-> strategy] :
                  code \in CodeOpts, strategy \in Strategies}

\* opt(c): the option applied to the client.
ApplyTo(c, o) ==
    CASE o.opt = "RetryMax" -> WithRetryMax(c, o.a)
      [] o.opt = "RetryWaitMin" -> WithRetryWaitMin(c, o.a)
      [] o.opt = "RetryWaitMax" -> WithRetryWaitMax(c, o.a)
      [] o.opt = "MaxResponseSize" -> WithMaxResponseSize(c, o.a)
      [] o.opt = "BackoffStrategy" -> WithBackoffStrategy(c, o.a, o.b)

\* New handing every client one and the same map of defaults.
NewMap_shared(h) ==
    IF Len(h) >= 1
    THEN [ref |-> 1, heap |-> h]
    ELSE [ref |-> 1, heap |-> <<DefaultBackoff>>]

\* "backoffStrategy: map[int]BackoffStrategy{...}": the literal makes a new
\* map object, holding the defaults, each time New runs.
NewMap(h) == [ref |-> Len(h) + 1, heap |-> Append(h, DefaultBackoff)]

\* The client behind a pointer: its fields, and the map its field refers to.
Deref(h, e) ==
    [retryMax |-> e.retryMax, retryWaitMin |-> e.retryWaitMin,
     retryWaitMax |-> e.retryWaitMax, maxResponseSize |-> e.maxResponseSize,
     mapIsNil |-> FALSE, backoffStrategy |-> h[e.ref]]

RECURSIVE OptsApplied(_)
\* Options applied so far, over all clients.
OptsApplied(s) ==
    IF s = <<>> THEN 0 ELSE Len(Head(s).opts) + OptsApplied(Tail(s))

\* New is called: the struct literal with its map literal.
NewCall ==
    /\ Len(cls) < MaxClients
    /\ LET m == NewMap(heap)
       IN /\ heap' = m.heap
          /\ cls' = Append(cls,
                 [retryMax |-> NewClient.retryMax,
                  retryWaitMin |-> NewClient.retryWaitMin,
                  retryWaitMax |-> NewClient.retryWaitMax,
                  maxResponseSize |-> NewClient.maxResponseSize,
                  ref |-> m.ref, opts |-> <<>>])
    /\ UNCHANGED <<phase, client, nopts, call, rd>>

\* An option is applied to client k: by the loop of New, or by the caller
\* afterwards. A write to the map is a write to the object the client's field
\* refers to.
NewApply(k, o) ==
    LET v == ApplyTo(Deref(heap, cls[k]), o)
    IN /\ OptsApplied(cls) < MaxOpts
       /\ heap' = [heap EXCEPT ![cls[k].ref] = v.backoffStrategy]
       /\ cls' = [cls EXCEPT ![k] =
              [retryMax |-> v.retryMax, retryWaitMin |-> v.retryWaitMin,
               retryWaitMax |-> v.retryWaitMax,
               maxResponseSize |-> v.maxResponseSize,
               ref |-> @.ref, opts |-> Append(@.opts, o)]]
       /\ UNCHANGED <<phase, client, nopts, call, rd>>

NextNew ==
    \/ NewCall
    \/ \E k \in 1..Len(cls), o \in NewOptions : NewApply(k, o)

SpecNew == Init /\ [][NextNew]_vars

\* ------------------------------------------------- limitedReadCloser
\* Lengths of the buffers Read is called with.
BufSizes == 0..MaxBody

\* c.LimitedReader(body): io.LimitReader(body, c.maxResponseSize) and the body.
LimitedReader(c, bodyLen) ==
    [IdleReader EXCEPT !.made = TRUE, !.limit = c.maxResponseSize,
                       !.N = c.maxResponseSize, !.M = bodyLen]

\* The buffer passed on whole, whatever is left of the limit.
LimitLen_whole(N, len) == len

\* io.LimitedReader.Read: "if int64(len(p)) > l.N { p = p[0:l.N] }".
LimitLen(N, len) == IF len > N THEN N ELSE len

\* What Read of the underlying body can return for a buffer of len bytes:
\* data, the end of the stream (with the last bytes or after them), or a
\* read error with the bytes that arrived before it.
BodyRead(r, len) ==
    LET left == r.M - r.pos
        most == IF len < left THEN len ELSE left
    IN IF r.closes > 0 \/ r.failed
       THEN {[n |-> 0, err |-> "error"]}
       ELSE {[n |-> k, err |-> "error"] : k \in 0..most}
            \cup (IF left = 0 THEN {[n |-> 0, err |-> "EOF"]}
                  ELSE IF len = 0 THEN {[n |-> 0, err |-> "nil"]}
                  ELSE {[n |-> k, err |-> "nil"] : k \in 1..most}
                       \cup (IF len >= left
                             THEN {[n |-> left, err |-> "EOF"]} ELSE {}))

\* A read error of the body reported as the end of the stream.
ReadResult_masked(got) ==
    [n |-> got.n, err |-> IF got.err = "error" THEN "EOF" ELSE got.err]

\* "return l.R.Read(p)": what the limited reader got from the body is what
\* Read returns.
ReadResult(got) == got

\* limitedReadCloser.Read(p) with len(p) = len: l.R.Read(p), R the
\* io.LimitedReader.
Read(len) ==
    /\ rd.made
    /\ rd.reads < MaxReads
    /\ IF rd.N <= 0
       THEN rd' = [rd EXCEPT !.reads = @ + 1, !.before = rd.delivered,
                             !.n = 0, !.err = "EOF", !.asked = FALSE]
       ELSE \E got \in BodyRead(rd, LimitLen(rd.N, len)) :
                rd' = [rd EXCEPT !.reads = @ + 1, !.before = rd.delivered,
                                 !.asked = TRUE,
                                 !.un = got.n, !.uerr = got.err,
                                 !.pos = @ + got.n,
                                 !.failed = @ \/ got.err = "error",
                                 !.N = @ - got.n,
                                 !.n = ReadResult(got).n,
                                 !.err = ReadResult(got).err,
                                 !.delivered = @ + ReadResult(got).n]
    /\ UNCHANGED <<phase, client, nopts, call, built>>

\* The underlying body's Close reports an error or not; what a second Close
\* of an io.Closer does is not specified.
BodyClose(r) == IF r.closes = 0 THEN {FALSE} ELSE {FALSE, TRUE}

\* The underlying body's Close skipped once a Read has reported EOF.
CloseUnderlying_unlessEOF(r) ==
    IF r.reads > 0 /\ r.err = "EOF" THEN r.closes ELSE r.closes + 1

\* l.C.Close(): the call reaches the underlying body.
CloseUnderlying(r) == r.closes + 1

\* limitedReadCloser.Close(): l.C.Close().
Close ==
    /\ rd.made
    /\ rd.closeCalls < MaxCloses
    /\ \E e \in BodyClose(rd) :
           rd' = [rd EXCEPT !.closeCalls = @ + 1,
                            !.closes = CloseUnderlying(rd),
                            !.closeErr = @ \/ e]
    /\ UNCHANGED <<phase, client, nopts, call, built>>

\* A client made by New with WithMaxResponseSize, and its LimitedReader over
\* a body of any length up to MaxBody.
InitReader ==
    /\ phase = "ready"
    /\ nopts = 1
    /\ client \in {WithMaxResponseSize(NewClient, maxBytes) :
                       maxBytes \in (0 - 1)..MaxSize}
    /\ call = [id \in CallIds |-> IdleCall]
    /\ rd \in {LimitedReader(client, bodyLen) : bodyLen \in 0..MaxBody}
    /\ heap = <<>>
    /\ cls = <<>>

NextReader ==
    \/ \E len \in BufSizes : Read(len)
    \/ Close

SpecReader == InitReader /\ [][NextReader]_vars

\* ---------------------------------------------------------- properties
\* The one call of Do that Spec runs.
D == call[1]

\* The select Do is in, or was in last, follows a response (not an error).
AfterStatus(r) == r.err = NilErr /\ r.resp # NilResp

InWait(r) == r.pc \in {"select", "blocked"}

RECURSIVE Pow2(_)
Pow2(k) == IF k <= 0 THEN 1 ELSE 2 * Pow2(k - 1)

\* C1: with retryMax = n >= 0, a call whose every attempt fails in the
\* transport and whose context is never cancelled has, when it returns, made
\* exactly n+1 attempts and n waits, and returns (nil, err) with err the error
\* of attempt n+1; until then it has made at most n+1 attempts.
C1_TransportFailuresExhaust ==
    (D.onlyErr /\ ~D.cancelled /\ client.retryMax >= 0) =>
        /\ D.attempts <= client.retryMax + 1
        /\ D.pc = "done" =>
              /\ D.attempts = client.retryMax + 1
              /\ D.nwaits = client.retryMax
              /\ D.ret = [resp |-> NilResp,
                          err |-> TransportErr(client.retryMax + 1)]

C1_Witness ==
    /\ D.pc = "done" /\ D.onlyErr /\ ~D.cancelled
    /\ client.retryMax >= 2
    /\ D.attempts = client.retryMax + 1
    /\ D.ret.err = TransportErr(D.attempts)

\* C2: a response whose status is a key of the backoff map is returned to the
\* caller only when no attempt remains (i = retryMax); while attempts remain
\* it is retried.
C2_ConfiguredStatusRetried ==
    (D.pc = "done" /\ D.ret.resp # NilResp
        /\ Configured(client, D.ret.resp.status)) =>
        D.i >= client.retryMax

\* C3: no wait follows a response whose status is not a key of the backoff
\* map: such a response is never retried.
C3_UnconfiguredNeverRetried ==
    (InWait(D) /\ AfterStatus(D)) => Configured(client, D.resp.status)

\* C4: a response received on the last attempt (i = retryMax) is returned
\* with a nil error, wrapped; an error Do returns comes with a nil response
\* and is the context's error or the transport error of the final attempt.
C4_ResponsesAreNotErrors ==
    D.pc = "done" =>
        /\ (D.attempts >= 1 /\ D.resp.at = D.attempts
               /\ D.i = client.retryMax) =>
              D.ret = [resp |-> [at |-> D.attempts,
                                 status |-> D.resp.status,
                                 body |-> "wrapped"],
                       err |-> NilErr]
        /\ D.ret.err # NilErr =>
              /\ D.ret.resp = NilResp
              /\ \/ D.ret.err = CtxErr /\ D.cancelled
                 \/ /\ D.ret.err = TransportErr(D.attempts)
                    /\ D.i = client.retryMax
                    /\ D.resp = NilResp

C4_Witness ==
    /\ D.pc = "done"
    /\ client.retryMax = 1 /\ D.attempts = 2
    /\ D.trigger = StatusTooManyRequests
    /\ D.ret.resp.status = StatusServiceUnavailable
    /\ D.ret.resp.at = 2
    /\ D.ret.err = NilErr

\* C5: a select that was blocked with its timer not fired when the context
\* was cancelled (sel = "ctx") ends in the return of (nil, ctx.Err()), and no
\* attempt follows the wait (every attempt so far was followed by a wait).
C5_CancelDuringWait ==
    D.sel = "ctx" =>
        \/ D.pc = "blocked" /\ D.attempts = D.nwaits
        \/ /\ D.pc = "done"
           /\ D.ret = [resp |-> NilResp, err |-> CtxErr]
           /\ D.attempts = D.nwaits

C5_Witness ==
    /\ D.pc = "done" /\ D.sel = "ctx"
    /\ D.trigger = StatusServiceUnavailable
    /\ D.nwaits = 2
    /\ D.ret.err = CtxErr

\* C6: Do never holds an unclosed body that it has not returned: between its
\* steps no such body exists, the body of a response that is being retried
\* is closed when the wait starts, and it is closed when Do returns the
\* context's error after it.
C6_DiscardedBodiesClosed ==
    /\ D.open = 0
    /\ (InWait(D) /\ AfterStatus(D)) => D.resp.body = "closed"
    /\ (D.pc = "done" /\ D.ret.resp = NilResp /\ D.resp # NilResp) =>
           D.resp.body = "closed"

C6_Witness ==
    /\ D.pc = "done"
    /\ D.ret = [resp |-> NilResp, err |-> CtxErr]
    /\ D.resp.body = "closed"
    /\ D.closed >= 2

\* The waits of the example of C7: 1s, 2s, 4s, 8s, then 10s for ever.
ExampleWait(k) == IF k <= 4 THEN Pow2(k - 1) ELSE 10

\* C7: in a call whose every attempt got a status configured Exponential, the
\* k-th wait lasts min(retryWaitMin * 2^(k-1), retryWaitMax), for the
\* configurations the data model allows (retryWaitMin <= retryWaitMax); with
\* retryWaitMin = 1s and retryWaitMax = 10s that is 1, 2, 4, 8, 10, 10, ...
C7_ExponentialWaits ==
    (InWait(D) /\ D.onlyExp /\ client.retryWaitMin <= client.retryWaitMax) =>
        /\ D.wait = Min(client.retryWaitMin * Pow2(D.nwaits - 1),
                        client.retryWaitMax)
        /\ (client.retryWaitMin = 1 /\ client.retryWaitMax = 10) =>
               D.wait = ExampleWait(D.nwaits)

C7_Witness ==
    /\ InWait(D) /\ D.onlyExp
    /\ client.retryWaitMin = 1 /\ client.retryWaitMax = 10
    /\ D.nwaits = 6
    /\ D.wait = 10

\* C8: a wait that follows a response whose status is configured Constant
\* lasts retryWaitMin.
C8_ConstantWaitIsMin ==
    (InWait(D) /\ AfterStatus(D)
        /\ KindOf(client, D.resp.status) = "const") =>
        D.wait = client.retryWaitMin

\* The reader of SpecReader.
L == rd

\* C9: with a limit N >= 0 the reader delivers the bytes of the body in
\* order and never more than N of them, reads no more than N from the body,
\* answers (0, EOF) to every Read made after N bytes were delivered, and when
\* a Read reports EOF exactly min(M, N) bytes have been delivered.
C9_BoundedRead ==
    (L.made /\ L.limit >= 0) =>
        /\ L.delivered <= L.limit
        /\ L.pos <= L.limit
        /\ L.delivered = L.pos
        /\ (L.reads > 0 /\ L.before >= L.limit) =>
               (L.n = 0 /\ L.err = "EOF")
        /\ (L.reads > 0 /\ L.err = "EOF") =>
               L.delivered = Min(L.M, L.limit)

C9_Witness ==
    /\ L.made /\ L.limit = 2 /\ L.M = 3
    /\ L.reads >= 3
    /\ L.before = 2 /\ L.delivered = 2
    /\ L.n = 0 /\ L.err = "EOF"

\* C10: however often Close is called, the underlying body's Close is called
\* at most once and no Close returns an error.
C10_CloseOnce ==
    L.made => (L.closes <= 1 /\ ~L.closeErr)

\* C11: a Close of the reader reaches the underlying body whatever Reads came
\* before it (none, some of the body, up to the limit, up to the body's end,
\* a read error): after one Close the body has been closed once; and Read
\* never closes the body: with no Close yet the body is not closed.
C11_CloseReachesBody ==
    L.made =>
        /\ L.closeCalls = 0 => L.closes = 0
        /\ L.closeCalls = 1 => L.closes = 1
        /\ L.closeCalls >= 1 => L.closes >= 1

\* Closed once, after the limit cut the body short and Read reported EOF.
C11_Witness ==
    /\ L.made /\ L.limit = 2 /\ L.M = 3
    /\ L.reads >= 2 /\ L.delivered = 2 /\ L.err = "EOF"
    /\ L.closeCalls = 1 /\ L.closes = 1

\* C13: with retryMax = 0 a call makes exactly one attempt and never waits;
\* it returns (nil, err) with the attempt's error when the transport failed
\* and (response, nil) with the attempt's response, whatever its status,
\* otherwise.
C13_NoRetries ==
    (client.retryMax = 0 /\ D.pc # "idle") =>
        /\ D.attempts = 1
        /\ D.nwaits = 0
        /\ D.pc = "done" =>
              \/ /\ D.err = TransportErr(1)
                 /\ D.ret = [resp |-> NilResp, err |-> TransportErr(1)]
              \/ /\ D.err = NilErr
                 /\ D.resp.at = 1
                 /\ D.ret = [resp |-> D.resp, err |-> NilErr]

\* A 429, which the map would retry, is returned from the only attempt.
C13_Witness ==
    /\ client.retryMax = 0 /\ D.pc = "done"
    /\ Configured(client, StatusTooManyRequests)
    /\ D.attempts = 1 /\ D.nwaits = 0
    /\ D.ret.resp.status = StatusTooManyRequests /\ D.ret.err = NilErr

\* C14: when a wait that a transport error started has elapsed, the next
\* wait is computed from key 0 of the map: retryWaitMin when 0 is not a key,
\* min(2 * wait, retryWaitMax) when 0 is configured Exponential.
C14_ErrorWaitFromKeyZero ==
    [][(InWait(D) /\ ~AfterStatus(D) /\ D'.i = D.i + 1) =>
          /\ ~Configured(client, NoStatus) => D'.wait = client.retryWaitMin
          /\ KindOf(client, NoStatus) = "exp" =>
                 D'.wait = Min(2 * D.wait, client.retryWaitMax)]_vars

\* After two waits started by transport errors, with key 0 Exponential, the
\* wait has doubled twice.
C14_Witness ==
    /\ D.pc = "attempt" /\ D.onlyErr /\ D.i = 2
    /\ KindOf(client, NoStatus) = "exp"
    /\ client.retryWaitMin = 1
    /\ D.wait = 4

\* C15: a response Do returns has had its body wrapped exactly once, with
\* the client's maxResponseSize as the limit; no other body is wrapped: not
\* the body of a response that is retried, and nothing while Do runs or when
\* it returns no response.
C15_ReturnedBodyWrappedOnce ==
    /\ (D.pc = "done" /\ D.ret.resp # NilResp) =>
           /\ D.wrapped = 1
           /\ D.ret.resp.body = "wrapped"
           /\ D.limit = client.maxResponseSize
           /\ D.ret.resp.at = D.attempts
    /\ (D.pc # "done" \/ D.ret.resp = NilResp) => D.wrapped = 0

\* A response returned after two others were retried and closed.
C15_Witness ==
    /\ D.pc = "done" /\ D.ret.resp # NilResp
    /\ D.closed = 2 /\ D.wrapped = 1
    /\ client.maxResponseSize = MaxSize /\ D.limit = MaxSize

\* C18: a Read made while fewer than maxResponseSize bytes have been delivered
\* returns what the underlying body's Read returned: a read error of the body
\* comes back as that error, with that read's byte count, never as EOF.
C18_ReadErrorPassedOn ==
    (L.made /\ L.reads > 0 /\ L.before < L.limit) =>
        /\ L.asked
        /\ L.uerr = "error" => (L.err = "error" /\ L.n = L.un)

\* The body fails after one byte of a second Read, below the limit.
C18_Witness ==
    /\ L.made /\ L.reads = 2 /\ L.before = 1 /\ L.limit > 1
    /\ L.asked /\ L.uerr = "error" /\ L.un = 1
    /\ L.err = "error" /\ L.n = 1

\* C19: once the context is cancelled Do starts no further attempt, whatever
\* the timer's state at that moment: from a state in which the context is
\* cancelled no step issues another c.Client.Do.
C19_NoAttemptAfterCancel ==
    [][D.cancelled => D'.attempts = D.attempts]_vars

\* C20: wait is retryWaitMin when Do starts and changes only on the step
\* that follows an elapsed wait, to min(2 * wait, retryWaitMax) when what
\* started that wait is configured Exponential and to retryWaitMin when it is
\* configured Constant or is not a key of the map; so the first wait of a
\* call lasts retryWaitMin and every later wait is determined by the triggers
\* of the waits before it.
C20_WaitRecurrence ==
    [][/\ (D.pc = "idle" /\ D'.pc # "idle") => D'.wait = client.retryWaitMin
       /\ (D.pc # "idle" /\ D'.wait # D.wait) =>
              (InWait(D) /\ D'.i = D.i + 1)
       /\ (InWait(D) /\ D'.i = D.i + 1) =>
              /\ D.timer = "fired"
              /\ D'.wait = IF KindOf(client, D.trigger) = "exp"
                           THEN Min(2 * D.wait, client.retryWaitMax)
                           ELSE client.retryWaitMin
       /\ (InWait(D') /\ D'.nwaits = 1) =>
              D'.wait = client.retryWaitMin]_vars

\* The fourth attempt of a call whose second wait was started by a trigger
\* that is not Exponential and whose third wait by one that is: the wait was
\* reset and then doubled once.
C20_Witness ==
    /\ D.pc = "attempt" /\ D.i = 3
    /\ ~D.onlyExp /\ ~D.onlyErr
    /\ client.retryWaitMin = 1 /\ client.retryWaitMax >= 4
    /\ D.wait = 2

\* What a call of Do has when it runs alone on client c: its attempt counter
\* counts its own attempts, and its result is of its own last attempt.
OwnResult(c, r) ==
    /\ r.pc \in {"attempt", "select", "blocked"} =>
           (r.attempts = r.i + 1 /\ r.i <= c.retryMax /\ r.nwaits <= r.i + 1)
    /\ r.pc = "done" =>
           \/ r.cancelled /\ r.ret = [resp |-> NilResp, err |-> CtxErr]
           \/ /\ r.i = c.retryMax /\ r.attempts = c.retryMax + 1
              /\ r.err = TransportErr(r.attempts)
              /\ r.ret = [resp |-> NilResp, err |-> r.err]
           \/ /\ r.err = NilErr /\ r.resp.at = r.attempts
              /\ r.attempts = r.i + 1
              /\ r.ret = [resp |-> r.resp, err |-> NilErr]

\* C12: two calls of Do on one client are independent under every
\* interleaving of their steps: no step writes a field of the client, a step
\* of one call leaves the other call's attempt counter, wait and result as
\* they were, each call's wait is recomputed from its own wait and trigger,
\* and each call's attempts and result are those of its own outcomes.
C12_CallsIndependent ==
    /\ [](\A id \in CallIds : OwnResult(client, call[id]))
    /\ [][/\ client' = client
          /\ \A id \in CallIds :
                (call'[id] # call[id]) =>
                   /\ \A o \in CallIds \ {id} : call'[o] = call[o]
                   /\ call'[id].i \in {call[id].i, call[id].i + 1}
                   /\ (call[id].pc # "idle" /\ call'[id].i = call[id].i) =>
                          call'[id].wait = call[id].wait
                   /\ (call'[id].i = call[id].i + 1) =>
                          call'[id].wait = getNextWait(client, call[id].trigger,
                                                       call[id].wait)]_vars

\* Both calls are in their second wait, one for twice as long as the other.
C12_Witness ==
    /\ InWait(call[1]) /\ InWait(call[2])
    /\ call[1].nwaits = 2 /\ call[2].nwaits = 2
    /\ call[1].wait = 2 /\ call[2].wait = 1

\* The map of the k-th client built.
MapOf(h, e) == h[e.ref]

\* Positions in opts of the WithBackoffStrategy options for code.
SetsCode(opts, code) ==
    {i \in 1..Len(opts) :
        opts[i].opt = "BackoffStrategy" /\ opts[i].a = code}

Latest(idx) == CHOOSE i \in idx : \A j \in idx : j <= i

\* The four entries a client starts with.
FourDefaults(m) ==
    /\ DOMAIN m = {StatusTooManyRequests, StatusBadGateway,
                   StatusServiceUnavailable, StatusGatewayTimeout}
    /\ m[StatusTooManyRequests] = ExponentialBackoff
    /\ m[StatusBadGateway] = ConstantBackoff
    /\ m[StatusServiceUnavailable] = ConstantBackoff
    /\ m[StatusGatewayTimeout] = ConstantBackoff

\* C16: the map of a client New has just made holds 429 Exponential and 502,
\* 503, 504 Constant; applying WithBackoffStrategy(code, kind) sets the entry
\* for code to kind and leaves every other entry and the four other tunables
\* as they were; of several such options for one code the last one applied
\* is the one the map holds.
C16_BackoffOptionFrame ==
    /\ [](\A k \in 1..Len(cls) : \A code \in CodeOpts :
            LET idx == SetsCode(cls[k].opts, code)
            IN idx # {} =>
                   /\ code \in DOMAIN MapOf(heap, cls[k])
                   /\ MapOf(heap, cls[k])[code] = cls[k].opts[Latest(idx)].b)
    /\ [][/\ Len(cls') = Len(cls) + 1 =>
                FourDefaults(MapOf(heap', cls'[Len(cls')]))
          /\ \A k \in 1..Len(cls) :
                LET o == cls'[k].opts[Len(cls'[k].opts)]
                    m == MapOf(heap, cls[k])
                    n == MapOf(heap', cls'[k])
                IN (Len(cls'[k].opts) = Len(cls[k].opts) + 1
                        /\ o.opt = "BackoffStrategy") =>
                       /\ DOMAIN n = DOMAIN m \cup {o.a}
                       /\ n[o.a] = o.b
                       /\ \A code \in DOMAIN m \ {o.a} : n[code] = m[code]
                       /\ cls'[k].retryMax = cls[k].retryMax
                       /\ cls'[k].retryWaitMin = cls[k].retryWaitMin
                       /\ cls'[k].retryWaitMax = cls[k].retryWaitMax
                       /\ cls'[k].maxResponseSize =
                              cls[k].maxResponseSize]_vars

\* A client given 500 Exponential and then 500 Constant holds 500 Constant,
\* beside its four defaults.
C16_Witness ==
    \E k \in 1..Len(cls) :
        /\ cls[k].opts =
               <<[opt |-> "BackoffStrategy", a |-> 500,
                  b |-> ExponentialBackoff],
                 [opt |-> "BackoffStrategy", a |-> 500,
                  b |-> ConstantBackoff]>>
        /\ MapOf(heap, cls[k])[500] = ConstantBackoff
        /\ MapOf(heap, cls[k])[StatusTooManyRequests] = ExponentialBackoff

\* The defaults with the overrides of opts, the last one for each code.
OwnMap(opts) ==
    [code \in {StatusTooManyRequests, StatusBadGateway,
               StatusServiceUnavailable, StatusGatewayTimeout}
              \cup {c \in CodeOpts : SetsCode(opts, c) # {}} |->
        IF SetsCode(opts, code) # {}
        THEN opts[Latest(SetsCode(opts, code))].b
        ELSE IF code = StatusTooManyRequests
             THEN ExponentialBackoff
             ELSE ConstantBackoff]

\* C17: whatever New calls and WithBackoffStrategy options came before, no
\* two clients share a map, the map of each client is the defaults with that
\* client's own overrides, and so the map of a client built with no options
\* is the four defaults.
C17_DefaultsNotShared ==
    \A k \in 1..Len(cls) :
        /\ \A j \in 1..Len(cls) : j # k => cls[j].ref # cls[k].ref
        /\ MapOf(heap, cls[k]) = OwnMap(cls[k].opts)
        /\ cls[k].opts = <<>> => FourDefaults(MapOf(heap, cls[k]))

\* One client has overridden 429 and added 500; another, built with no
\* options, holds the defaults.
C17_Witness ==
    /\ Len(cls) = 2
    /\ cls[1].opts =
           <<[opt |-> "BackoffStrategy", a |-> StatusTooManyRequests,
              b |-> ConstantBackoff],
             [opt |-> "BackoffStrategy", a |-> 500,
              b |-> ExponentialBackoff]>>
    /\ cls[2].opts = <<>>
    /\ MapOf(heap, cls[1])[StatusTooManyRequests] = ConstantBackoff
    /\ MapOf(heap, cls[2])[StatusTooManyRequests] = ExponentialBackoff

\* C21: on a client with 0 < retryWaitMin <= retryWaitMax the wait a call of
\* Do holds is, from the call on and after any outcomes of its attempts,
\* at least retryWaitMin and at most retryWaitMax.
C21_WaitWithinBounds ==
    (D.pc # "idle" /\ 0 < client.retryWaitMin
        /\ client.retryWaitMin <= client.retryWaitMax) =>
        (client.retryWaitMin <= D.wait /\ D.wait <= client.retryWaitMax)

\* With waits of 2 to 10 seconds, the fourth attempt of a call that got
\* responses holds the cap: after the waits 2, 4 and 8 the doubled wait is cut
\* to 10.
C21_Witness ==
    /\ D.pc = "attempt" /\ D.i = 3 /\ ~D.onlyErr
    /\ client.retryWaitMin = 2 /\ client.retryWaitMax = 10
    /\ D.wait = 10

\* Exactly one of the two results is nil.
OneOfRespErr(ret) == (ret.resp # NilResp) # (ret.err # NilErr)

\* C22: with retryMax >= 0, attempts that return and timers that fire unless
\* the context is cancelled, a call of Do returns; it has made at least one
\* and at most retryMax+1 attempts, with one wait after each attempt but the
\* last (and one more, cut short, when it returns the context's error), and
\* it returns either a response and a nil error or no response and an error.
C22_DoReturns ==
    /\ (D.pc # "idle") ~> (D.pc = "done")
    /\ [](D.pc # "idle" =>
             /\ 1 <= D.attempts /\ D.attempts <= client.retryMax + 1
             /\ D.nwaits \in {D.attempts - 1, D.attempts})
    /\ [](D.pc = "done" =>
             /\ OneOfRespErr(D.ret)
             /\ D.nwaits = D.attempts <=> D.ret.err = CtxErr)

\* A call returns the response of its last allowed attempt.
C22_Witness ==
    /\ D.pc = "done" /\ client.retryMax >= 2
    /\ D.attempts = client.retryMax + 1 /\ D.nwaits = client.retryMax
    /\ D.ret.resp # NilResp /\ D.ret.err = NilErr

====
